---------------------------- MODULE Spec2Model ----------------------------
(***************************************************************************)
(* Lziprecover (src/lzip/lziprecover.cc): the copy/diff scanner, the merge *)
(* and repair search engines and the split scanner, as state machines.     *)
(*                                                                         *)
(* A file image is a sequence of bytes; the byte at file offset p is       *)
(* img[p+1].  The LZMA decoder behind try_decompress is a black box: the   *)
(* set `accepted` holds the images it decodes cleanly.                     *)
(***************************************************************************)
EXTENDS Integers, Sequences, FiniteSets, TLC

VARIABLES
  mode,            \* which engine runs: "diff", "merge", "repair", "split",
                   \* or "guard" for the variation count of merge alone
  pc,              \* position in the engine's code
  ret,             \* the engine's return value (-1 while it runs)
  msg,             \* the diagnostic given to show_error / printf, "" if none
  inputs,          \* the input files' images, inputs[1] is input 0
  filenames_size,  \* filenames.size(), the number of input files
  members,         \* split: the members the input was put together from
  accepted,        \* the images the decoder decodes without error
  force,           \* --force
  outExists,       \* a file exists at the output path
  out,             \* the image of the file at the output path
  created,         \* open_outstream has returned a descriptor
  touched,         \* the output path was created, truncated or written
  consulted,       \* the inputs try_decompress was called on (merge)
  lastOracle,      \* verdict of the latest try_decompress on the output
  dirty,           \* the output was written after that verdict
  oracle_log,      \* what each try_decompress on the output was called
                   \* for, in call order: << pos, byte >> in repair,
                   \* << var, block_vector >> in merge
  block_vector,    \* merge: vector of Blocks [pos, size]
  orig_block,      \* merge: block_vector[0] before the single-block split
  shifts, base_variations, variations, var, done,
  failure_pos, min_pos, byte, trial,       \* repair: trial is the loop's i
  pos,             \* repair and split: the local pos
  newpos,          \* split: the scan position in the window
  base_buffer,     \* split: tsize + buffer_size + hsize bytes
  size, at_stream_end, partial_member_size, rdpos,
  outputs,         \* split: the files created so far, in creation order
  output_filename  \* split: the five digits of "recNNNNN"

vars == << mode, pc, ret, msg, inputs, filenames_size, members, accepted,
           force, outExists, out, created, touched, consulted, lastOracle,
           dirty, oracle_log, block_vector, orig_block, shifts,
           base_variations, variations, var, done, failure_pos, min_pos,
           pos, newpos, byte, trial, base_buffer, size, at_stream_end,
           partial_member_size, rdpos, outputs, output_filename >>

fileVars   == << inputs, filenames_size, members, accepted, force >>
outVars    == << outExists, out, created, touched >>
oracleVars == << consulted, lastOracle, dirty, oracle_log >>
mergeVars  == << block_vector, orig_block, shifts, base_variations,
                 variations, var, done >>
repairVars == << failure_pos, min_pos, pos, byte, trial >>
splitVars  == << newpos, base_buffer, size, at_stream_end,
                 partial_member_size, rdpos, outputs, output_filename >>

Min(a, b) == IF a <= b THEN a ELSE b
Max(a, b) == IF a >= b THEN a ELSE b

(***************************************************************************)
(* Bounds.  buffer_size stands for the scanner's 65536-byte buffers, cut   *)
(* down so that files of a few dozen bytes span several buffers.           *)
(***************************************************************************)
buffer_size == 4
DiffMaxLen  == 8      \* longest file given to the scanner alone, 2 inputs
DiffMaxLen3 == 4      \* the same with 3 inputs

(***************************************************************************)
(* Container framing (lzip.h).                                             *)
(***************************************************************************)
magic_string == << 76, 90, 73, 80 >>                      \* "LZIP"
hsize == 6                                  \* File_header::size
tsize == 20                                 \* File_trailer::size()
min_file_size == 36

uint8_range == 256

\* The 8-byte little-endian encoding of n, 0 <= n < 2^31.
LE8(n) == [k \in 1..8 |-> IF k <= 4 THEN (n \div (uint8_range^(k-1))) % uint8_range
                                     ELSE 0]

verify_magic(img) == SubSeq(img, 1, 4) = magic_string
version(img) == img[5]

\* verify_header: the magic string and version 1.
verify_header(img) == verify_magic(img) /\ version(img) = 1

\* File_trailer::member_size() = file_size, as a comparison of encodings.
member_size_is(img, n) == SubSeq(img, Len(img) - 7, Len(img)) = LE8(n)

\* verify_single_member: header, then trailer.member_size() == file_size.
verify_single_member(img) ==
  /\ Len(img) >= hsize
  /\ verify_header(img)
  /\ Len(img) >= tsize
  /\ member_size_is(img, Len(img))

(***************************************************************************)
(* try_decompress: the header checks, then the decoder's verdict.          *)
(***************************************************************************)
try_decompress(img) ==
  /\ Len(img) > hsize
  /\ verify_magic(img)
  /\ version(img) = 1
  /\ img \in accepted

(***************************************************************************)
(* copy_and_diff_file.  The scanner's state is the open block's pos (0: no *)
(* block is open), equal_bytes and the vector built so far.                *)
(***************************************************************************)
Differ(files, p) == \E j \in 2..Len(files) : files[1][p+1] # files[j][p+1]

ScanInit == [pos |-> 0, equal_bytes |-> 0, blocks |-> << >>]

\* if( equal_bytes >= 2 ), with the variant that closes a block too early
block_closes_early(equal_bytes) == equal_bytes >= 1
block_closes(equal_bytes) == equal_bytes >= 2

\* while( i < rd && b.pos() == 0 ) { ...begin block...; ++i; }
RECURSIVE seeking(_, _, _, _, _)
seeking(files, partial_pos, rd, i, s) ==
  IF i < rd /\ s.pos = 0
  THEN seeking(files, partial_pos, rd, i + 1,
               IF Differ(files, partial_pos + i)
               THEN [s EXCEPT !.pos = partial_pos + i]
               ELSE s)
  ELSE [i |-> i, s |-> s]

\* while( i < rd && b.pos() > 0 ) { ++equal_bytes; ...end block...; ++i; }
RECURSIVE in_block(_, _, _, _, _)
in_block(files, partial_pos, rd, i, s) ==
  IF i < rd /\ s.pos > 0
  THEN LET eq == IF Differ(files, partial_pos + i) THEN 0
                 ELSE s.equal_bytes + 1
           s1 == IF block_closes(eq)
                 THEN [pos |-> 0, equal_bytes |-> 0,
                       blocks |-> Append(s.blocks,
                         [pos  |-> s.pos,
                          size |-> partial_pos + i - (eq - 1) - s.pos])]
                 ELSE [s EXCEPT !.equal_bytes = eq]
       IN in_block(files, partial_pos, rd, i + 1, s1)
  ELSE [i |-> i, s |-> s]

\* for( int i = 0; i < rd; ++i ) { seeking; in_block }
RECURSIVE scan_buffer(_, _, _, _, _)
scan_buffer(files, partial_pos, rd, i, s) ==
  IF i < rd
  THEN LET a == seeking(files, partial_pos, rd, i, s)
           b == in_block(files, partial_pos, rd, a.i, a.s)
       IN scan_buffer(files, partial_pos, rd, b.i + 1, b.s)
  ELSE s

\* while( !error ) { rd = readblock(...); ...; if( rd < buffer_size ) break; }
RECURSIVE read_loop(_, _, _)
read_loop(files, partial_pos, s) ==
  LET rd == Min(buffer_size, Len(files[1]) - partial_pos)
      s1 == IF rd > 0 THEN scan_buffer(files, partial_pos, rd, 0, s) ELSE s
  IN IF rd < buffer_size
     THEN [partial_pos |-> partial_pos + rd, s |-> s1]
     ELSE read_loop(files, partial_pos + rd, s1)

copy_and_diff_file(files) ==
  LET r == read_loop(files, 0, ScanInit)
  IN [out |-> files[1],
      block_vector |->
        IF r.s.pos > 0                               \* finish last block
        THEN Append(r.s.blocks,
                    [pos |-> r.s.pos, size |-> r.partial_pos - r.s.pos])
        ELSE r.s.blocks]

Block_end(b) == b.pos + b.size

(***************************************************************************)
(* copy_file: copies up to `count` bytes (less at end of file) from offset  *)
(* src_pos of src over dst at offset dst_pos.                              *)
(***************************************************************************)
copy_file(src, src_pos, dst, dst_pos, count) ==
  LET n == Max(0, Min(count, Len(src) - src_pos))
  IN [k \in 1..Max(Len(dst), dst_pos + n) |->
        IF dst_pos < k /\ k <= dst_pos + n THEN src[src_pos + (k - dst_pos)]
        ELSE dst[k]]

INT_MAX == 2147483647

\* ipow: base^exponent, INT_MAX once the next product would pass INT_MAX;
\* with the variant that stops multiplying there and keeps the result.
RECURSIVE ipow_loop_unsaturated(_, _, _, _)
ipow_loop_unsaturated(base, exponent, i, result) ==
  IF i < exponent
  THEN IF INT_MAX \div base >= result
       THEN ipow_loop_unsaturated(base, exponent, i + 1, result * base)
       ELSE result
  ELSE result
RECURSIVE ipow_loop(_, _, _, _)
ipow_loop(base, exponent, i, result) ==
  IF i < exponent
  THEN IF INT_MAX \div base >= result
       THEN ipow_loop(base, exponent, i + 1, result * base)
       ELSE INT_MAX
  ELSE result

ipow(base, exponent) == ipow_loop(base, exponent, 0, 1)

\* Block::shift on the pair (a, b): ++a.size, ++b.pos, --b.size.
Block_shift(bv) ==
  [bv EXCEPT ![1] = [pos |-> bv[1].pos, size |-> bv[1].size + 1],
             ![2] = [pos |-> bv[2].pos + 1, size |-> bv[2].size - 1]]

\* The source of block i in variation v: digit i of v in base n (merge_files,
\* tmp % filenames.size(); tmp /= filenames.size()).
RECURSIVE digit(_, _, _)
digit(v, n, i) == IF i = 1 THEN v % n ELSE digit(v \div n, n, i - 1)

\* The inner for loop of a variation: the first `upto` blocks copied; with
\* the variant that copies only the blocks taken from another input than
\* input 0.
RECURSIVE write_blocks_not_from_0(_, _, _, _, _)
write_blocks_not_from_0(dst, files, bv, v, upto) ==
  IF upto = 0 THEN dst
  ELSE LET d == write_blocks_not_from_0(dst, files, bv, v, upto - 1)
           src == files[digit(v, Len(files), upto) + 1]
       IN IF digit(v, Len(files), upto) = 0 THEN d
          ELSE copy_file(src, bv[upto].pos, d, bv[upto].pos, bv[upto].size)
RECURSIVE write_blocks(_, _, _, _, _)
write_blocks(dst, files, bv, v, upto) ==
  IF upto = 0 THEN dst
  ELSE LET d == write_blocks(dst, files, bv, v, upto - 1)
           src == files[digit(v, Len(files), upto) + 1]
       IN copy_file(src, bv[upto].pos, d, bv[upto].pos, bv[upto].size)

(***************************************************************************)
(* The scanner alone, on N equal-length inputs of arbitrary content.       *)
(***************************************************************************)
EngineIdle ==
  /\ filenames_size = Len(inputs)
  /\ ret = -1 /\ msg = ""
  /\ consulted = {} /\ lastOracle = "none" /\ dirty = FALSE
  /\ oracle_log = << >>
  /\ block_vector = << >> /\ orig_block = [pos |-> 0, size |-> 0]
  /\ shifts = 0 /\ base_variations = 0 /\ variations = 0 /\ var = 0
  /\ done = FALSE
  /\ failure_pos = 0 /\ min_pos = 0 /\ pos = 0 /\ byte = 0 /\ trial = 0
  /\ newpos = 0
  /\ base_buffer = << >> /\ size = 0 /\ at_stream_end = FALSE
  /\ partial_member_size = 0 /\ rdpos = 0 /\ outputs = << >>
  /\ output_filename = << 0, 0, 0, 0, 1 >>

Zeros(n) == [k \in 1..n |-> 0]

DiffInputs ==
  UNION { { << Zeros(n), b >> : b \in [1..n -> {0, 1}] } : n \in 1..DiffMaxLen }
  \cup
  UNION { { << Zeros(n), b, c >> : b \in [1..n -> {0, 1}], c \in [1..n -> {0, 2}] }
          : n \in 1..DiffMaxLen3 }

InitDiff ==
  /\ mode = "diff" /\ pc = "scan"
  /\ inputs \in DiffInputs
  /\ members = << >>
  /\ accepted = {} /\ force = FALSE
  /\ outExists = FALSE /\ out = << >> /\ created = FALSE /\ touched = FALSE
  /\ EngineIdle

Diff_scan ==
  /\ mode = "diff" /\ pc = "scan"
  /\ LET r == copy_and_diff_file(inputs)
     IN /\ out' = r.out
        /\ block_vector' = r.block_vector
  /\ outExists' = TRUE /\ created' = TRUE /\ touched' = TRUE
  /\ pc' = "done" /\ ret' = 0
  /\ UNCHANGED << mode, msg, fileVars, oracleVars, orig_block, shifts,
                  base_variations, variations, var, done, repairVars,
                  splitVars >>

NextDiff == Diff_scan

SpecDiff == InitDiff /\ [][NextDiff]_vars

(***************************************************************************)
(* The files given to merge and repair: copies of one valid single-member  *)
(* file, each damaged at up to two offsets.                                *)
(***************************************************************************)
FileLen   == 36          \* length of the member the copies are made from
PairLimit == 4           \* payload offsets at which double damage is placed

Header == magic_string \o << 1, 12 >>

\* A member of n bytes: header, payload, trailer with member size n.
Member(n) == Header \o Zeros(n - hsize - 8) \o LE8(n)

Orig == Member(FileLen)

Payload == hsize..(FileLen - tsize - 1)

Damage(img, D, d) ==
  [k \in 1..Len(img) |-> IF (k - 1) \in D THEN (img[k] + d) % uint8_range
                         ELSE img[k]]

DamageSets ==
  { {} } \cup { {p} : p \in Payload \cup {0, FileLen - 8} }
         \cup { {p, q} : p, q \in hsize..(hsize + PairLimit - 1) }

Copies == { Damage(Orig, D, d) : D \in DamageSets, d \in {1, 2} }

Copies3 == { Damage(Orig, D, d) :
               D \in { {}, {hsize}, {hsize + 1}, {hsize + 5} }, d \in {1, 2} }

MergeInputs ==
  { << a, b >> : a \in Copies, b \in Copies }
  \cup { << a, b, c >> : a \in Copies3, b \in Copies3, c \in Copies3 }
  \cup { << Orig, Member(FileLen + 1) >>,
         << Member(FileLen - 1), Member(FileLen - 1) >> }

\* What the decoder accepts: nothing, the undamaged member, or another image.
AcceptedSets == { {}, {Orig}, {Damage(Orig, {hsize + 1}, 1)} }

OldFile == << 9, 9 >>     \* content of a file found at the output path

\* The output path before the run: absent, or present with or without
\* --force.
Environment ==
  /\ \E e \in { << FALSE, FALSE >>, << TRUE, TRUE >>, << FALSE, TRUE >> } :
        force = e[1] /\ outExists = e[2]
  /\ out = IF outExists THEN OldFile ELSE << >>
  /\ created = FALSE /\ touched = FALSE

InitMerge ==
  /\ mode = "merge" /\ pc = "m_verify"
  /\ inputs \in MergeInputs
  /\ members = << >>
  /\ accepted \in AcceptedSets
  /\ Environment
  /\ EngineIdle

isize == Len(inputs[1])

Return(code, text) == pc' = "done" /\ ret' = code /\ msg' = text

(***************************************************************************)
(* merge_files                                                             *)
(***************************************************************************)
\* Lines 388-409: the sizes, the 36-byte minimum, verify_single_member.
Merge_verify ==
  /\ mode = "merge" /\ pc = "m_verify"
  /\ IF \E k \in 1..Len(inputs) : Len(inputs[k]) # isize
     THEN Return(1, "Sizes of input files are different.")
     ELSE IF isize < min_file_size
     THEN Return(2, "Input file is too short.")
     ELSE IF \E k \in 1..Len(inputs) : ~verify_single_member(inputs[k])
     THEN Return(2, "Member header or trailer is invalid.")
     ELSE pc' = "m_try_inputs" /\ UNCHANGED << ret, msg >>
  /\ UNCHANGED << mode, fileVars, outVars, oracleVars, mergeVars,
                  repairVars, splitVars >>

\* The first input try_decompress accepts, 0 if it accepts none; with the
\* variant that goes on to the search whatever the verdicts.
first_clean_ignored(files) == 0
first_clean(files) ==
  LET clean == { k \in 1..Len(files) : try_decompress(files[k]) }
  IN IF clean = {} THEN 0 ELSE CHOOSE k \in clean : \A j \in clean : k <= j

\* Lines 410-417: try_decompress on each input, stopping at the first clean
\* one.
Merge_try_inputs ==
  /\ mode = "merge" /\ pc = "m_try_inputs"
  /\ LET k == first_clean(inputs)
     IN IF k # 0
        THEN /\ consulted' = 1..k
             /\ Return(0, "File has no errors. Recovery is not needed.")
        ELSE /\ consulted' = 1..Len(inputs)
             /\ pc' = "m_open" /\ UNCHANGED << ret, msg >>
  /\ UNCHANGED << mode, fileVars, outVars, lastOracle, dirty, oracle_log,
                  mergeVars,
                  repairVars, splitVars >>

\* open_outstream: O_CREAT | O_RDWR, with O_TRUNC under --force and O_EXCL
\* otherwise.
open_fails == outExists /\ ~force

Open_outstream(next_pc) ==
  IF open_fails
  THEN /\ Return(1, "Output file already exists. Use --force to overwrite it.")
       /\ UNCHANGED outVars
  ELSE /\ outExists' = TRUE /\ out' = << >>
       /\ created' = TRUE /\ touched' = TRUE
       /\ pc' = next_pc /\ UNCHANGED << ret, msg >>

\* Lines 419-423.
Merge_open ==
  /\ mode = "merge" /\ pc = "m_open"
  /\ Open_outstream("m_diff")
  /\ UNCHANGED << mode, fileVars, oracleVars, mergeVars, repairVars,
                  splitVars >>

MsgIdentical == "Input files are identical. Recovery is not possible."
MsgSameByte ==
  "Input files have the same byte damaged. Try repairing one of them."
MsgTooDamaged == "Input files are too damaged. Recovery is not possible."

\* Lines 429-443 on the vector bv of copy_and_diff_file and n files: the
\* diagnostic of the refusal, "" if the search goes ahead.  The variant
\* takes an empty vector for a single damaged byte.
merge_refusal_no_identical(bv, n) ==
  IF Len(bv) = 0 \/ (Len(bv) = 1 /\ bv[1].size < 2) THEN MsgSameByte
  ELSE IF \/ ipow(n, Len(bv)) >= INT_MAX
          \/ Len(bv) = 1 /\ ipow(n, 2) >= INT_MAX \div bv[1].size
  THEN MsgTooDamaged
  ELSE ""
merge_refusal(bv, n) ==
  LET single_block == Len(bv) = 1
  IN IF Len(bv) = 0 THEN MsgIdentical
     ELSE IF single_block /\ bv[1].size < 2 THEN MsgSameByte
     ELSE IF \/ ipow(n, Len(bv)) >= INT_MAX
             \/ single_block /\ ipow(n, 2) >= INT_MAX \div bv[1].size
     THEN MsgTooDamaged
     ELSE ""

\* Lines 429-454: the refusals (return 1), then shifts, the split of a
\* single block and the number of variations; with the variant that goes
\* on to var = base * shifts - 1.
merge_prepare_one_more(bv, n) ==
  LET single_block == Len(bv) = 1
  IN IF merge_refusal(bv, n) # ""
     THEN [ret |-> 1, msg |-> merge_refusal(bv, n)]
     ELSE LET sh  == IF single_block THEN bv[1].size - 1 ELSE 1
              bv2 == IF single_block
                     THEN << [pos |-> bv[1].pos, size |-> 1],
                             [pos |-> bv[1].pos + 1, size |-> bv[1].size - 1] >>
                     ELSE bv
              base == ipow(n, Len(bv2))
          IN [ret |-> -1, msg |-> "", block_vector |-> bv2, shifts |-> sh,
              base_variations |-> base, variations |-> (base * sh) - 1]
merge_prepare(bv, n) ==
  LET single_block == Len(bv) = 1
  IN IF merge_refusal(bv, n) # ""
     THEN [ret |-> 1, msg |-> merge_refusal(bv, n)]
     ELSE LET sh  == IF single_block THEN bv[1].size - 1 ELSE 1
              bv2 == IF single_block
                     THEN << [pos |-> bv[1].pos, size |-> 1],
                             [pos |-> bv[1].pos + 1, size |-> bv[1].size - 1] >>
                     ELSE bv
              base == ipow(n, Len(bv2))
          IN [ret |-> -1, msg |-> "", block_vector |-> bv2, shifts |-> sh,
              base_variations |-> base, variations |-> (base * sh) - 2]

\* Lines 426-454.  A read or write error of copy_and_diff_file leaves a
\* part of input 0 in the output.
Merge_copy_and_diff ==
  /\ mode = "merge" /\ pc = "m_diff"
  /\ \E error \in BOOLEAN :
       IF error
       THEN /\ \E n \in {0, buffer_size} : out' = SubSeq(inputs[1], 1, n)
            /\ Return(1, "Error reading input file")
            /\ UNCHANGED mergeVars
       ELSE LET r == copy_and_diff_file(inputs)
                p == merge_prepare(r.block_vector, Len(inputs))
            IN /\ out' = r.out
               /\ orig_block' = IF Len(r.block_vector) >= 1
                                THEN r.block_vector[1] ELSE orig_block
               /\ IF p.ret # -1
                  THEN /\ Return(p.ret, p.msg)
                       /\ block_vector' = r.block_vector
                       /\ UNCHANGED << shifts, base_variations, variations,
                                       var, done >>
                  ELSE /\ block_vector' = p.block_vector
                       /\ shifts' = p.shifts
                       /\ base_variations' = p.base_variations
                       /\ variations' = p.variations
                       /\ var' = 1
                       /\ pc' = IF 1 <= p.variations THEN "m_write"
                                ELSE "m_close"
                       /\ UNCHANGED << ret, msg, done >>
  /\ UNCHANGED << mode, fileVars, outExists, created, touched, oracleVars,
                  repairVars, splitVars >>

\* Lines 463-474: the blocks of variation var are copied into the output,
\* which is then sought to 0.  fail = 0: no error; fail = k: the copy of
\* block k fails; fail = Len + 1: the final lseek fails.
Merge_write_variation ==
  /\ mode = "merge" /\ pc = "m_write"
  /\ \E fail \in 0..(Len(block_vector) + 1) :
       /\ out' = write_blocks(out, inputs, block_vector, var,
                              IF fail = 0 THEN Len(block_vector)
                              ELSE fail - 1)
       /\ IF fail = 0
          THEN pc' = "m_try" /\ UNCHANGED << ret, msg >>
          ELSE IF fail <= Len(block_vector)
          THEN Return(1, "Error reading output file")
          ELSE Return(1, "Seek error in output file")
  /\ dirty' = TRUE
  /\ UNCHANGED << mode, fileVars, outExists, created, touched, consulted,
                  lastOracle, oracle_log, mergeVars, repairVars, splitVars >>

\* if( var % base_variations == 0 ) block_vector[0].shift( block_vector[1] ),
\* with the variant that shifts one variation later
shift_due_one_later(v, base) == v % base = 1
shift_due(v, base) == v % base = 0

\* Lines 475-477 and the loop's ++var.
Merge_try_decompress ==
  /\ mode = "merge" /\ pc = "m_try"
  /\ dirty' = FALSE
  /\ oracle_log' = Append(oracle_log, << var, block_vector >>)
  /\ IF try_decompress(out)
     THEN /\ lastOracle' = "accept"
          /\ done' = TRUE
          /\ pc' = "m_close"
          /\ UNCHANGED << block_vector, var >>
     ELSE /\ lastOracle' = "reject"
          /\ block_vector' = IF shift_due(var, base_variations)
                             THEN Block_shift(block_vector)
                             ELSE block_vector
          /\ var' = var + 1
          /\ pc' = IF var + 1 <= variations THEN "m_write" ELSE "m_close"
          /\ UNCHANGED done
  /\ UNCHANGED << mode, ret, msg, fileVars, outVars, consulted, orig_block,
                  shifts, base_variations, variations, repairVars,
                  splitVars >>

\* The engines' last lines: done decides between return 0 and the removal
\* of the output file.
keeps_always(d) == TRUE
keeps_output(d) == d

\* Lines 481-494 (merge) and 560-573 (repair).
Close_output(failure_text) ==
  \E close_ok \in BOOLEAN :
    IF ~close_ok
    THEN Return(1, "Error closing output file") /\ UNCHANGED outVars
    ELSE IF keeps_output(done)
    THEN Return(0, "") /\ UNCHANGED outVars
    ELSE /\ outExists' = FALSE /\ out' = << >>
         /\ UNCHANGED << created, touched >>
         /\ Return(2, failure_text)

Merge_close ==
  /\ mode = "merge" /\ pc = "m_close"
  /\ Close_output("Some error areas overlap. Can't recover input file.")
  /\ UNCHANGED << mode, fileVars, oracleVars, mergeVars, repairVars,
                  splitVars >>

NextMerge ==
  \/ Merge_verify
  \/ Merge_try_inputs
  \/ Merge_open
  \/ Merge_copy_and_diff
  \/ Merge_write_variation
  \/ Merge_try_decompress
  \/ Merge_close

SpecMerge == InitMerge /\ [][NextMerge]_vars

(***************************************************************************)
(* repair_file                                                             *)
(***************************************************************************)
trials == 255            \* for( int i = 0; i < 255; ++i )
search_window == 2       \* stands for the 1000 of failure_pos - 1000

RepairInputs ==
  { Orig, Damage(Orig, {0}, 1), Damage(Orig, {FileLen - 8}, 1),
    Damage(Orig, {hsize + 3}, 1), Damage(Orig, {hsize, hsize + 1}, 255) }
  \cup { Damage(Orig, {p}, d) : p \in {hsize, hsize + 1}, d \in {1, 255} }

\* Where the decoder may say it stopped; 0 is also what failure_pos keeps
\* when try_decompress leaves it unset.
FailurePositions == { 0, hsize + 1, hsize + 3, FileLen - 8 }

InitRepair ==
  /\ mode = "repair" /\ pc = "r_start"
  /\ inputs \in { << f >> : f \in RepairInputs }
  /\ members = << >>
  /\ accepted \in AcceptedSets
  /\ Environment
  /\ EngineIdle

\* if( failure_pos >= isize - 8 ) failure_pos = isize - 8 - 1;
clamp_failure_pos(fp, file_size) ==
  IF fp >= file_size - 8 THEN file_size - 8 - 1 ELSE fp

\* Lines 501-520.
Repair_start ==
  /\ mode = "repair" /\ pc = "r_start"
  /\ IF isize < min_file_size
     THEN Return(2, "Input file is too short.")
          /\ UNCHANGED << consulted, failure_pos >>
     ELSE IF ~verify_single_member(inputs[1])
     THEN Return(2, "Member header or trailer is invalid.")
          /\ UNCHANGED << consulted, failure_pos >>
     ELSE IF try_decompress(inputs[1])
     THEN Return(0, "Input file has no errors. Recovery is not needed.")
          /\ consulted' = {1}
          /\ UNCHANGED failure_pos
     ELSE \E fp \in FailurePositions :
            /\ consulted' = {1}
            /\ failure_pos' = clamp_failure_pos(fp, isize)
            /\ IF failure_pos' < hsize
               THEN Return(2, "Can't repair error in input file.")
               ELSE pc' = "r_open" /\ UNCHANGED << ret, msg >>
  /\ UNCHANGED << mode, fileVars, outVars, lastOracle, dirty, oracle_log,
                  mergeVars,
                  min_pos, pos, byte, trial, splitVars >>

\* Lines 522-525.
Repair_open ==
  /\ mode = "repair" /\ pc = "r_open"
  /\ Open_outstream("r_copy")
  /\ UNCHANGED << mode, fileVars, oracleVars, mergeVars, repairVars,
                  splitVars >>

\* std::max( (long long)File_header::size, failure_pos - 1000 ), with the
\* variant that searches one position further down
first_pos_one_more(fp) == Max(hsize, fp - search_window - 1)
first_pos(fp) == Max(hsize, fp - search_window)

\* Lines 526-531: copy_file of the whole input, min_pos, pos = failure_pos.
Repair_copy ==
  /\ mode = "repair" /\ pc = "r_copy"
  /\ \E error \in BOOLEAN :
       IF error
       THEN /\ out' = SubSeq(inputs[1], 1, buffer_size)
            /\ Return(1, "Error reading input file")
            /\ UNCHANGED << min_pos, pos >>
       ELSE /\ out' = copy_file(inputs[1], 0, out, 0, isize)
            /\ min_pos' = first_pos(failure_pos)
            /\ pos' = failure_pos
            /\ pc' = "r_pos" /\ UNCHANGED << ret, msg >>
  /\ UNCHANGED << mode, fileVars, outExists, created, touched, oracleVars,
                  mergeVars, failure_pos, byte, trial, splitVars >>

\* Lines 531-541: the loop test pos >= min_pos and the read of the byte.
Repair_read_byte ==
  /\ mode = "repair" /\ pc = "r_pos"
  /\ IF pos < min_pos
     THEN pc' = "r_close" /\ UNCHANGED << ret, msg, byte, trial >>
     ELSE \E error \in BOOLEAN :
            IF error
            THEN Return(1, "Error reading output file")
                 /\ UNCHANGED << byte, trial >>
            ELSE /\ byte' = out[pos + 1]
                 /\ trial' = 0
                 /\ pc' = "r_write" /\ UNCHANGED << ret, msg >>
  /\ UNCHANGED << mode, fileVars, outVars, oracleVars, mergeVars,
                  failure_pos, min_pos, pos, splitVars >>

\* ++byte on a uint8_t, with the variant that steps by two
next_byte_by_two(b) == (b + 2) % uint8_range
next_byte(b) == (b + 1) % uint8_range

\* Lines 544-548: ++byte, written at pos, the output sought to 0.  An error
\* of the last lseek leaves the byte written.
Repair_write_trial ==
  /\ mode = "repair" /\ pc = "r_write"
  /\ byte' = next_byte(byte)
  /\ out' = [out EXCEPT ![pos + 1] = byte']
  /\ dirty' = TRUE
  /\ \E error \in BOOLEAN :
       IF error THEN Return(1, "Error writing output file")
       ELSE pc' = "r_try" /\ UNCHANGED << ret, msg >>
  /\ UNCHANGED << mode, fileVars, outExists, created, touched, consulted,
                  lastOracle, oracle_log, mergeVars, failure_pos, min_pos,
                  pos, trial, splitVars >>

\* Lines 549-552 and the loop's ++i.
Repair_try_decompress ==
  /\ mode = "repair" /\ pc = "r_try"
  /\ dirty' = FALSE
  /\ oracle_log' = Append(oracle_log, << pos, byte >>)
  /\ IF try_decompress(out)
     THEN /\ lastOracle' = "accept"
          /\ done' = TRUE
          /\ pc' = "r_close"
          /\ UNCHANGED trial
     ELSE /\ lastOracle' = "reject"
          /\ trial' = trial + 1
          /\ pc' = IF trial + 1 < trials THEN "r_write" ELSE "r_restore"
          /\ UNCHANGED done
  /\ UNCHANGED << mode, ret, msg, fileVars, outVars, consulted,
                  block_vector, orig_block, shifts, base_variations,
                  variations, var, failure_pos, min_pos, pos, byte,
                  splitVars >>

\* Lines 553-557 and the loop's --pos: one more ++byte is written back.
Repair_restore ==
  /\ mode = "repair" /\ pc = "r_restore"
  /\ byte' = next_byte(byte)
  /\ out' = [out EXCEPT ![pos + 1] = byte']
  /\ dirty' = TRUE
  /\ \E error \in BOOLEAN :
       IF error
       THEN Return(1, "Error writing output file") /\ UNCHANGED pos
       ELSE pos' = pos - 1 /\ pc' = "r_pos" /\ UNCHANGED << ret, msg >>
  /\ UNCHANGED << mode, fileVars, outExists, created, touched, consulted,
                  lastOracle, oracle_log, mergeVars, failure_pos, min_pos,
                  trial, splitVars >>

Repair_close ==
  /\ mode = "repair" /\ pc = "r_close"
  /\ Close_output("Error is larger than 1 byte. Can't repair input file.")
  /\ UNCHANGED << mode, fileVars, oracleVars, mergeVars, repairVars,
                  splitVars >>

NextRepair ==
  \/ Repair_start
  \/ Repair_open
  \/ Repair_copy
  \/ Repair_read_byte
  \/ Repair_write_trial
  \/ Repair_try_decompress
  \/ Repair_restore
  \/ Repair_close

SpecRepair == InitRepair /\ [][NextRepair]_vars

(***************************************************************************)
(* The two recovery engines together.                                      *)
(***************************************************************************)
Init == InitMerge \/ InitRepair

Next == NextMerge \/ NextRepair

Spec == Init /\ [][Next]_vars

(***************************************************************************)
(* do_split_file                                                           *)
(***************************************************************************)
split_buffer_size == 38  \* stands for the 65536 bytes of the read window
MaxMembers == 3          \* members put together into one input

base_buffer_size == tsize + split_buffer_size + hsize

RECURSIVE Concat(_)
Concat(ss) == IF ss = << >> THEN << >> ELSE Head(ss) \o Concat(Tail(ss))

\* A valid member holding, at offset hsize + 8, the magic string preceded
\* by the 8-byte value hsize + 8.
TrapMember ==
  Header \o LE8(hsize + 8) \o magic_string \o Zeros(tsize - 8)
         \o LE8(hsize + 8 + 4 + tsize)

\* A valid member holding the magic string preceded by zeros.
DecoyMember ==
  Header \o Zeros(8) \o magic_string \o Zeros(tsize - 8)
         \o LE8(hsize + 8 + 4 + tsize)

\* A member whose trailer gives a member size one too large.
BadSizeMember ==
  Header \o Zeros(min_file_size - hsize - 8) \o LE8(min_file_size + 1)

MemberKinds ==
  { Member(n) : n \in (split_buffer_size - 2)..(split_buffer_size + 1) }
  \cup { TrapMember, DecoyMember, BadSizeMember }

MemberLists ==
  UNION { [1..k -> MemberKinds] : k \in 1..MaxMembers }
  \cup { << SubSeq(Member(hsize + tsize), 1, tsize + 2) >>,
         << magic_string \o << 0, 12 >> \o Zeros(tsize + 8) >>,
         << << 77 >> \o Zeros(tsize + 8) >> }

\* What new uint8_t[base_buffer_size] may hold before the first read.
Garbage == {0, 255}

InitSplit ==
  /\ mode = "split" /\ pc = "s_start"
  /\ members \in MemberLists
  /\ inputs = << Concat(members) >>
  /\ filenames_size = 1
  /\ accepted = {}
  /\ force \in BOOLEAN
  /\ outExists = FALSE /\ out = << >> /\ created = FALSE /\ touched = FALSE
  /\ ret = -1 /\ msg = ""
  /\ consulted = {} /\ lastOracle = "none" /\ dirty = FALSE
  /\ oracle_log = << >>
  /\ block_vector = << >> /\ orig_block = [pos |-> 0, size |-> 0]
  /\ shifts = 0 /\ base_variations = 0 /\ variations = 0 /\ var = 0
  /\ done = FALSE
  /\ failure_pos = 0 /\ min_pos = 0 /\ pos = 0 /\ byte = 0 /\ trial = 0
  /\ newpos = 0
  /\ \E g \in Garbage : base_buffer = [k \in 1..base_buffer_size |-> g]
  /\ size = 0 /\ at_stream_end = FALSE
  /\ partial_member_size = 0 /\ rdpos = 0 /\ outputs = << >>
  /\ output_filename = << 0, 0, 0, 0, 1 >>

\* buffer[from .. to), buffer = base_buffer + tsize
BufSlice(bb, from, to) == SubSeq(bb, tsize + from + 1, tsize + to)

\* readblock( infd, base_buffer + at, count ): the bytes read and the buffer
\* after the read.
ReadInto(bb, at, file, offset, count) ==
  LET rd == Max(0, Min(count, Len(file) - offset))
  IN [rd |-> rd,
      bb |-> [k \in 1..Len(bb) |->
                IF at < k /\ k <= at + rd THEN file[offset + (k - at)]
                ELSE bb[k]]]

\* The diagnostic of verify_header, "" for a version 1 header.
verify_header_msg(img) ==
  IF ~verify_magic(img) THEN "Bad magic number (file not in lzip format)."
  ELSE IF version(img) = 0
  THEN "Version 0 member format can't be recovered."
  ELSE IF version(img) # 1 THEN "Version member format not supported."
  ELSE ""

\* open_outstream on a name of split's own: without --force it fails when
\* a file of that name exists.
OpenMayFail == IF force THEN {FALSE} ELSE BOOLEAN

MsgExists == "Output file already exists. Use --force to overwrite it."

\* next_filename: the five digits of "recNNNNN" incremented, or FALSE.
RECURSIVE next_filename_loop(_, _)
next_filename_loop(name, i) ==
  IF i < 1 THEN [ok |-> FALSE, name |-> name]
  ELSE IF name[i] < 9
  THEN [ok |-> TRUE, name |-> [name EXCEPT ![i] = name[i] + 1]]
  ELSE next_filename_loop([name EXCEPT ![i] = 0], i - 1)

next_filename(name) == next_filename_loop(name, 5)

\* writeblock on the file being written.
WriteLast(files, bytes) ==
  [files EXCEPT ![Len(files)] = files[Len(files)] \o bytes]

\* Lines 591-616.
Split_start ==
  /\ mode = "split" /\ pc = "s_start"
  /\ LET r == ReadInto(base_buffer, tsize, inputs[1], 0,
                       split_buffer_size + hsize)
     IN /\ base_buffer' = r.bb
        /\ rdpos' = r.rd
        /\ size' = r.rd - hsize
        /\ at_stream_end' = (r.rd - hsize < split_buffer_size)
        /\ IF r.rd - hsize <= tsize
           THEN Return(2, "Input file is too short.")
                /\ UNCHANGED << outputs, newpos >>
           ELSE IF verify_header_msg(BufSlice(r.bb, 0, hsize)) # ""
           THEN Return(2, verify_header_msg(BufSlice(r.bb, 0, hsize)))
                /\ UNCHANGED << outputs, newpos >>
           ELSE \E fails \in OpenMayFail :
                  IF fails
                  THEN Return(1, MsgExists) /\ UNCHANGED << outputs, newpos >>
                  ELSE /\ outputs' = << << >> >>
                       /\ newpos' = 1
                       /\ pc' = "s_scan" /\ UNCHANGED << ret, msg >>
  /\ UNCHANGED << mode, fileVars, outVars, oracleVars, mergeVars,
                  failure_pos, min_pos, pos, byte, trial,
                  partial_member_size, output_filename >>

\* Lines 621-629: the magic string at buffer[np] and, in the 8 bytes before
\* it, the distance from the start of the member being written.  The
\* variant takes the magic string alone for a header.
header_found_by_magic(bb, np, psize, p) ==
  BufSlice(bb, np, np + 4) = magic_string
header_found(bb, np, psize, p) ==
  /\ BufSlice(bb, np, np + 4) = magic_string
  /\ BufSlice(bb, np - 8, np) = LE8(psize + np - p)

\* Lines 620-643, from newpos to the next header found or to the end of
\* the window.
Split_scan ==
  /\ mode = "split" /\ pc = "s_scan"
  /\ LET hits == { np \in newpos..size :
                     header_found(base_buffer, np, partial_member_size, pos) }
     IN IF hits = {}
        THEN /\ newpos' = size + 1
             /\ pc' = "s_end"
             /\ UNCHANGED << ret, msg, outputs, output_filename,
                             partial_member_size, pos >>
        ELSE LET np == CHOOSE h \in hits : \A j \in hits : h <= j
                 written == WriteLast(outputs, BufSlice(base_buffer, pos, np))
                 nx == next_filename(output_filename)
             IN /\ output_filename' = nx.name
                /\ IF ~nx.ok
                   THEN /\ Return(1, "Too many members in file.")
                        /\ outputs' = written
                        /\ UNCHANGED << partial_member_size, pos, newpos >>
                   ELSE \E fails \in OpenMayFail :
                          IF fails
                          THEN /\ Return(1, MsgExists)
                               /\ outputs' = written
                               /\ UNCHANGED << partial_member_size, pos,
                                               newpos >>
                          ELSE /\ outputs' = Append(written, << >>)
                               /\ partial_member_size' = 0
                               /\ pos' = np
                               /\ newpos' = np + 1
                               /\ UNCHANGED << pc, ret, msg >>
  /\ UNCHANGED << mode, fileVars, outVars, oracleVars, mergeVars,
                  failure_pos, min_pos, byte, trial, base_buffer, size,
                  at_stream_end, rdpos >>

\* size + hsize - pos, the bytes written at the end of the stream; the
\* variant leaves out the hsize bytes read ahead.
tail_length_short(sz, p) == sz - p
tail_length(sz, p) == sz + hsize - p

\* Lines 645-664: the rest of the stream, or the rest of the window, the
\* slide of the last tsize + hsize bytes and the next read.
Split_end_window ==
  /\ mode = "split" /\ pc = "s_end"
  /\ IF at_stream_end
     THEN /\ outputs' = WriteLast(outputs,
                          BufSlice(base_buffer, pos,
                                   pos + tail_length(size, pos)))
          /\ Return(0, "")
          /\ UNCHANGED << partial_member_size, pos, newpos, base_buffer,
                          size, at_stream_end, rdpos >>
     ELSE LET slid == [k \in 1..base_buffer_size |->
                         IF k <= tsize + hsize
                         THEN base_buffer[split_buffer_size + k]
                         ELSE base_buffer[k]]
              r == ReadInto(slid, tsize + hsize, inputs[1], rdpos,
                            split_buffer_size)
          IN /\ IF pos < split_buffer_size
                THEN /\ partial_member_size' =
                          partial_member_size + split_buffer_size - pos
                     /\ outputs' = WriteLast(outputs,
                                     BufSlice(base_buffer, pos,
                                              split_buffer_size))
                ELSE UNCHANGED << partial_member_size, outputs >>
             /\ base_buffer' = r.bb
             /\ size' = r.rd
             /\ at_stream_end' = (r.rd < split_buffer_size)
             /\ rdpos' = rdpos + r.rd
             /\ pos' = 0
             /\ newpos' = 1
             /\ pc' = "s_scan" /\ UNCHANGED << ret, msg >>
  /\ UNCHANGED << mode, fileVars, outVars, oracleVars, mergeVars,
                  failure_pos, min_pos, byte, trial, output_filename >>

NextSplit ==
  \/ Split_start
  \/ Split_scan
  \/ Split_end_window

SpecSplit == InitSplit /\ [][NextSplit]_vars

(***************************************************************************)
(* ipow and the variation count of merge_files alone, on numbers of files  *)
(* and block vectors no file of the bounded length gives.                  *)
(***************************************************************************)
MaxBlocks == 33          \* longest block vector

FileCounts == { 2, 3, 4, 10, 255, 1000, 46340, 46341, 65535, 65536, 100000 }

\* Sizes of a single block, up to the largest that passes for two files
\* and beyond.
BlockSizes ==
  { 2, 3, 4, 1000, 46341, 65536, 134217728, 268435455, 268435456,
    429496729, 429496730, 536870911, 536870912, 1073741823, 2147483000 }

\* k blocks of one byte, three offsets apart.
SeparateBlocks(k) == [i \in 1..k |-> [pos |-> hsize + 3 * (i - 1), size |-> 1]]

BlockVectors ==
  { SeparateBlocks(k) : k \in 2..MaxBlocks }
  \cup { << [pos |-> hsize, size |-> sz] >> : sz \in BlockSizes }

InitGuard ==
  /\ mode = "guard" /\ pc = "g_ipow"
  /\ inputs = << >>
  /\ filenames_size \in FileCounts \cup {1}
  /\ members = << >>
  /\ accepted = {} /\ force = FALSE
  /\ outExists = FALSE /\ out = << >> /\ created = FALSE /\ touched = FALSE
  /\ ret = -1 /\ msg = ""
  /\ consulted = {} /\ lastOracle = "none" /\ dirty = FALSE
  /\ oracle_log = << >>
  /\ block_vector \in BlockVectors
  /\ orig_block = block_vector[1]
  /\ shifts = 0 /\ base_variations = 0 /\ variations = 0 /\ var = 0
  /\ done = FALSE
  /\ failure_pos = 0 /\ min_pos = 0 /\ pos = 0 /\ byte = 0 /\ trial = 0
  /\ newpos = 0
  /\ base_buffer = << >> /\ size = 0 /\ at_stream_end = FALSE
  /\ partial_member_size = 0 /\ rdpos = 0 /\ outputs = << >>
  /\ output_filename = << 0, 0, 0, 0, 1 >>

\* Line 439: ipow( filenames.size(), block_vector.size() ).
Guard_ipow ==
  /\ mode = "guard" /\ pc = "g_ipow"
  /\ base_variations' = ipow(filenames_size, Len(block_vector))
  /\ pc' = "g_prepare"
  /\ UNCHANGED << mode, ret, msg, fileVars, outVars, oracleVars,
                  block_vector, orig_block, shifts, variations, var, done,
                  repairVars, splitVars >>

\* Lines 439-454, for two files or more (main, line 762).
Guard_prepare ==
  /\ mode = "guard" /\ pc = "g_prepare"
  /\ filenames_size >= 2
  /\ LET p == merge_prepare(block_vector, filenames_size)
     IN IF p.ret # -1
        THEN /\ Return(p.ret, p.msg)
             /\ UNCHANGED << block_vector, shifts, base_variations,
                             variations, var >>
        ELSE /\ block_vector' = p.block_vector
             /\ shifts' = p.shifts
             /\ base_variations' = p.base_variations
             /\ variations' = p.variations
             /\ var' = 1
             /\ pc' = "done" /\ UNCHANGED << ret, msg >>
  /\ UNCHANGED << mode, fileVars, outVars, oracleVars, orig_block, done,
                  repairVars, splitVars >>

NextGuard ==
  \/ Guard_ipow
  \/ Guard_prepare

SpecGuard == InitGuard /\ [][NextGuard]_vars

ScanDone == mode = "diff" /\ pc = "done"

InSomeBlock(p) ==
  \E k \in 1..Len(block_vector) :
     block_vector[k].pos <= p /\ p < Block_end(block_vector[k])

\* C6: after copy_and_diff_file the output is input 0 and every offset at
\* which some input differs from input 0 lies inside a block of the vector.
C6_every_divergence_in_a_block ==
  ScanDone =>
    /\ out = inputs[1]
    /\ \A p \in 0..(Len(inputs[1]) - 1) : Differ(inputs, p) => InSomeBlock(p)

\* C7: the blocks have pos >= 0 and size >= 1, are sorted and disjoint, and
\* two consecutive offsets at which all inputs agree lie between the end of
\* each block and the start of the next.
C7_blocks_ordered_and_separated ==
  ScanDone =>
    /\ \A k \in 1..Len(block_vector) :
          /\ block_vector[k].pos >= 0
          /\ block_vector[k].size >= 1
          /\ Block_end(block_vector[k]) <= Len(inputs[1])
    /\ \A k \in 1..(Len(block_vector) - 1) :
          /\ Block_end(block_vector[k]) <= block_vector[k+1].pos
          /\ \E q \in Block_end(block_vector[k])..(block_vector[k+1].pos - 2) :
                ~Differ(inputs, q) /\ ~Differ(inputs, q + 1)

\* Two blocks with just two agreeing offsets between them, the first one
\* closed by the last byte of a buffer.
C7_witness ==
  /\ ScanDone
  /\ \E k \in 1..(Len(block_vector) - 1) :
        /\ block_vector[k + 1].pos = Block_end(block_vector[k]) + 2
        /\ block_vector[k + 1].pos = buffer_size


(***************************************************************************)
(* The recovery engines.                                                   *)
(***************************************************************************)
Finished == pc = "done"

AllRejected == \A k \in 1..Len(inputs) : ~try_decompress(inputs[k])

\* A diagnostic of the environment: the output cannot be created, or a
\* read, write, seek or close fails.
IOFailure ==
  msg \in { "Output file already exists. Use --force to overwrite it.",
            "Error reading input file", "Error reading output file",
            "Error writing output file", "Seek error in output file",
            "Error closing output file" }

\* The offsets at which two images of the same length differ.
DiffSet(a, b) == { p \in 0..(Len(a) - 1) : a[p + 1] # b[p + 1] }

\* C1: when every input is rejected by try_decompress, merge and repair
\* return 0 only if the latest try_decompress on the output succeeded and
\* the output was not written since: the file left is the accepted image.
C1_exit_0_only_on_accepted_output ==
  (mode \in {"merge", "repair"} /\ Finished /\ ret = 0 /\ AllRejected) =>
    /\ lastOracle = "accept"
    /\ ~dirty
    /\ outExists
    /\ try_decompress(out)

\* merge returns 0 after shifting the boundary of a single block.
C1_witness ==
  /\ mode = "merge" /\ Finished /\ ret = 0 /\ AllRejected
  /\ shifts >= 2 /\ var > base_variations

\* Copy A differs from the original only at payload offset a, copy B only
\* at payload offset b # a, and the decoder accepts exactly the original.
TwoSingleDamages ==
  /\ mode = "merge" /\ Len(inputs) = 2
  /\ accepted = {Orig}
  /\ Len(inputs[1]) = FileLen /\ Len(inputs[2]) = FileLen
  /\ \E a, b \in Payload :
        /\ a # b
        /\ DiffSet(inputs[1], Orig) = {a}
        /\ DiffSet(inputs[2], Orig) = {b}

\* C2: merge of two copies damaged at distinct single payload offsets, at
\* any distance, returns 0 and leaves the original image (unless the
\* environment fails).
C2_merge_recovers_any_distance ==
  (TwoSingleDamages /\ Finished /\ ~IOFailure) =>
    /\ ret = 0
    /\ outExists /\ out = Orig

\* C3: when repair returns 0 after creating the output, the output differs
\* from the input in exactly one byte, at an offset p with
\* max(header size, f - window) <= p <= f, f the clamped failure position;
\* whenever the search moves to a position, the bytes tried before are
\* back at their input values.
C3_repair_changes_one_byte ==
  /\ (mode = "repair" /\ Finished /\ ret = 0 /\ created) =>
       /\ failure_pos <= isize - 9
       /\ Len(out) = isize
       /\ \E p \in Max(hsize, failure_pos - search_window)..failure_pos :
             DiffSet(out, inputs[1]) = {p}
  /\ (mode = "repair" /\ pc = "r_pos") => out = inputs[1]

\* repair succeeds below the failure position, after a position was
\* tried in vain and restored.
C3_witness ==
  /\ mode = "repair" /\ Finished /\ ret = 0 /\ created
  /\ pos < failure_pos

\* C8: merge and repair leave no output file behind when they return a
\* nonzero code after having created it.
C8_output_unlinked_on_failure ==
  (mode \in {"merge", "repair"} /\ Finished /\ ret # 0 /\ created) =>
    ~outExists

InputsVerified ==
  /\ \A k \in 1..Len(inputs) : Len(inputs[k]) = isize
  /\ \A k \in 1..Len(inputs) : verify_single_member(inputs[k])

\* C9: if try_decompress accepts one of merge's verified inputs, merge
\* returns 0 and the output path is never created, truncated or written,
\* --force or not; and the output is opened only after try_decompress was
\* called on every input.
C9_clean_input_leaves_output_alone ==
  /\ (mode = "merge" /\ InputsVerified /\ ~AllRejected) =>
       /\ ~created /\ ~touched
       /\ out = IF outExists THEN OldFile ELSE << >>
       /\ Finished => ret = 0
  /\ (mode = "merge" /\ created) => consulted = 1..Len(inputs)

\* --force, a file at the output path, the second input clean: return 0
\* and the old file is still there.
C9_witness ==
  /\ mode = "merge" /\ Finished /\ ret = 0
  /\ force /\ outExists /\ out = OldFile
  /\ consulted = {1, 2}
  /\ ~try_decompress(inputs[1])

\* Two copies with the same wrong value at the same single offset.
SameDamageTwice ==
  /\ mode = "merge" /\ Len(inputs) = 2
  /\ inputs[1] = inputs[2]
  /\ InputsVerified
  /\ \E p \in Payload : DiffSet(inputs[1], Orig) = {p}
  /\ AllRejected

\* C10 as stated: two identically damaged copies get return 1 and the
\* "same byte damaged, try repairing" diagnostic.
C10_identical_damage_says_try_repairing ==
  (SameDamageTwice /\ Finished /\ ~IOFailure) =>
    ret = 1 /\ msg = MsgSameByte

\* C10, amended: two identically damaged copies get return 1 and the
\* "input files are identical" diagnostic (unless the environment fails).
C10_identical_damage_says_identical ==
  (SameDamageTwice /\ Finished /\ ~IOFailure) =>
    ret = 1 /\ msg = MsgIdentical

C10_witness ==
  SameDamageTwice /\ Finished /\ ret = 1 /\ msg = MsgIdentical /\ created


(***************************************************************************)
(* The split scanner.                                                      *)
(***************************************************************************)
ValidMember(m) ==
  /\ Len(m) >= min_file_size
  /\ verify_header(m)
  /\ member_size_is(m, Len(m))

AllMembersValid == \A k \in 1..Len(members) : ValidMember(members[k])

\* Member m holds, at an offset p inside it, the magic string preceded by
\* the 8-byte little-endian value p.
FalseBoundary(m) ==
  \E p \in 8..(Len(m) - 4) :
     /\ SubSeq(m, p + 1, p + 4) = magic_string
     /\ SubSeq(m, p - 7, p) = LE8(p)

SplitFinished == mode = "split" /\ Finished

\* C4 as stated: split of the concatenation of k valid members returns 0
\* with exactly k output files, the i-th equal to the i-th member (unless
\* an output file cannot be created).
C4_split_gives_back_the_members ==
  (SplitFinished /\ AllMembersValid /\ msg # MsgExists) =>
    ret = 0 /\ outputs = members

\* C4, amended: the same, for at most 99999 members none of which holds
\* the magic string preceded by its own offset.
C4_split_gives_back_plain_members ==
  (/\ SplitFinished /\ AllMembersValid /\ msg # MsgExists
   /\ Len(members) <= 99999
   /\ \A k \in 1..Len(members) : ~FalseBoundary(members[k])) =>
    ret = 0 /\ outputs = members

\* Three members given back, one boundary at the last offset of the first
\* full window and one in a later window.
C4_witness ==
  /\ SplitFinished /\ ret = 0 /\ AllMembersValid
  /\ Len(members) = 3 /\ outputs = members
  /\ Len(members[1]) = split_buffer_size
  /\ \A k \in 1..3 : ~FalseBoundary(members[k])

\* C5: whenever split returns 0, its output files put together in creation
\* order are the input, byte for byte.
C5_outputs_concatenate_to_input ==
  (SplitFinished /\ ret = 0) => Concat(outputs) = inputs[1]

\* A run with a false boundary, a missing boundary and a boundary at the
\* last offset of a full window.
C5_witness ==
  /\ SplitFinished /\ ret = 0
  /\ Len(outputs) # Len(members)
  /\ \E k \in 1..Len(outputs) : Len(outputs[k]) = split_buffer_size
  /\ rdpos > 2 * split_buffer_size


(***************************************************************************)
(* The searches of repair and merge, call by call.                         *)
(***************************************************************************)
\* The search of repair_file went through every position without an
\* accepted trial and without a failing read, write, seek or close.
RepairExhausted ==
  /\ mode = "repair" /\ Finished /\ created /\ ~done /\ ~IOFailure

\* The positions of the search, failure_pos first.
SearchPositions ==
  failure_pos - Max(hsize, failure_pos - search_window) + 1

\* C11: when try_decompress rejects every trial image (and no read, write,
\* seek or close fails), repair_file calls it on the output exactly 255
\* times for each position from failure_pos down to
\* max(hsize, failure_pos - search_window), in descending order, the calls
\* of one position seeing the 255 values other than the input's byte there;
\* every call sees an image that differs from the input at the current
\* position only; the search ends with return 2 and no output file.
C11_repair_search_is_exhaustive ==
  /\ (mode = "repair" /\ pc = "r_try") =>
        /\ DiffSet(out, inputs[1]) = {pos}
        /\ out[pos + 1] = byte
  /\ RepairExhausted =>
        /\ Len(oracle_log) = trials * SearchPositions
        /\ Len(oracle_log) <= trials * (search_window + 1)
        /\ \A j \in 0..(SearchPositions - 1) : \A i \in 1..trials :
              oracle_log[j * trials + i] =
                << failure_pos - j,
                   (inputs[1][failure_pos - j + 1] + i) % uint8_range >>
        /\ \A j \in 0..(SearchPositions - 1) :
              { oracle_log[j * trials + i][2] : i \in 1..trials } =
                 (0..(uint8_range - 1)) \ { inputs[1][failure_pos - j + 1] }
        /\ ret = 2
        /\ ~outExists

\* An exhausted search over a full window of positions, ended above the
\* header.
C11_witness ==
  /\ RepairExhausted
  /\ ret = 2 /\ ~outExists
  /\ SearchPositions = search_window + 1
  /\ failure_pos - search_window > hsize
  /\ Len(oracle_log) = trials * (search_window + 1)

\* A try_decompress of the merge loop is about to be made on the output.
MergeTrial == mode = "merge" /\ pc = "m_try"

\* Offset p lies in block b.
InBlock(p, b) == b.pos <= p /\ p < b.pos + b.size

\* The input block i is taken from in variation v: digit i of v in base n,
\* for blocks counted from 0.
SourceOf(v, n, i) == (v \div (n ^ i)) % n

\* C12: at every try_decompress of the merge loop, made for variation var,
\* the output equals input 0 at every offset outside the blocks as they
\* stand and, inside block i, the input floor(var / n^i) mod n.
C12_trial_image_is_the_variation ==
  MergeTrial =>
    /\ Len(out) = Len(inputs[1])
    /\ \A p \in 0..(Len(out) - 1) :
         /\ (\A i \in 1..Len(block_vector) : ~InBlock(p, block_vector[i]))
               => out[p + 1] = inputs[1][p + 1]
         /\ \A i \in 1..Len(block_vector) :
               InBlock(p, block_vector[i]) =>
                 out[p + 1] =
                   inputs[SourceOf(var, Len(inputs), i - 1) + 1][p + 1]

\* A single block after a shift: the first working block, written from
\* input 1 by earlier variations, is taken from input 0 again and differs
\* there from input 1.
C12_witness ==
  /\ MergeTrial
  /\ Len(block_vector) = 2
  /\ block_vector[1].size >= 2
  /\ block_vector[1].pos = orig_block.pos
  /\ SourceOf(var, Len(inputs), 0) = 0
  /\ SourceOf(var, Len(inputs), 1) # 0
  /\ \E p \in 0..(Len(out) - 1) :
        /\ InBlock(p, block_vector[1])
        /\ inputs[1][p + 1] # inputs[2][p + 1]
        /\ out[p + 1] = inputs[1][p + 1]

\* The search loop of merge_files was entered.
MergeSearch == mode = "merge" /\ base_variations > 0

\* The vector copy_and_diff_file gave merge_files.
ScannedBlocks == copy_and_diff_file(inputs).block_vector

\* C13: in the single-block case (scanned block [p, p+s), s >= 2) the two
\* working blocks always satisfy B[0].pos = p, B[0].end = B[1].pos,
\* B[0].size + B[1].size = s and both sizes >= 1, at every try_decompress
\* and after every shift; in the multi-block case no shift is made: the
\* block vector stays the scanned one, also in every logged call.
C13_working_blocks_partition_the_block ==
  MergeSearch =>
    LET scanned == ScannedBlocks
        Partition(bv) ==
          /\ Len(bv) = 2
          /\ bv[1].pos = scanned[1].pos
          /\ bv[1].pos + bv[1].size = bv[2].pos
          /\ bv[1].size + bv[2].size = scanned[1].size
          /\ bv[1].size >= 1 /\ bv[2].size >= 1
    IN IF Len(scanned) = 1
       THEN /\ scanned[1].size >= 2
            /\ Partition(block_vector)
            /\ \A c \in 1..Len(oracle_log) : Partition(oracle_log[c][2])
       ELSE /\ block_vector = scanned
            /\ \A c \in 1..Len(oracle_log) : oracle_log[c][2] = scanned

\* The last boundary of a block of three bytes or more: the second working
\* block is down to one byte and a try_decompress is made.
C13_witness ==
  /\ MergeTrial /\ MergeSearch
  /\ Len(ScannedBlocks) = 1
  /\ ScannedBlocks[1].size >= 3
  /\ block_vector[2].size = 1
  /\ block_vector[1].size = ScannedBlocks[1].size - 1

\* The search of merge_files went through every variation without an
\* accepted trial and without a failing read, write, seek or close.
MergeExhausted ==
  /\ mode = "merge" /\ Finished /\ MergeSearch /\ ~done /\ ~IOFailure

\* The indices var the loop called try_decompress for.
TriedIndices == { oracle_log[c][1] : c \in 1..Len(oracle_log) }

Configurations == 0..(base_variations * shifts - 1)

\* C14 as stated: the two configurations left untried both take every
\* block from input 0; no configuration taking a block from another input
\* is skipped.
C14_untried_are_all_from_input_0 ==
  MergeExhausted =>
    /\ Cardinality(Configurations \ TriedIndices) = 2
    /\ \A v \in Configurations \ TriedIndices :
         \A i \in 0..(Len(block_vector) - 1) :
            SourceOf(v, Len(inputs), i) = 0

\* C14, amended: the loop tries var = 1 .. base*shifts - 2 in this order
\* and leaves two configurations untried, var = 0, which takes every block
\* from input 0, and var = base*shifts - 1, which takes every block from
\* the last input; every configuration that takes blocks from two different
\* inputs is tried.
C14_untried_are_first_and_last ==
  MergeExhausted =>
    /\ ret = 2
    /\ Len(oracle_log) = base_variations * shifts - 2
    /\ \A c \in 1..Len(oracle_log) : oracle_log[c][1] = c
    /\ Configurations \ TriedIndices = {0, base_variations * shifts - 1}
    /\ \A i \in 0..(Len(block_vector) - 1) :
         /\ SourceOf(0, Len(inputs), i) = 0
         /\ SourceOf(base_variations * shifts - 1, Len(inputs), i) =
               Len(inputs) - 1
    /\ \A v \in Configurations :
         (\E i, j \in 0..(Len(block_vector) - 1) :
             SourceOf(v, Len(inputs), i) # SourceOf(v, Len(inputs), j))
           => v \in TriedIndices

\* An exhausted search over several boundaries of one block.
C14_witness ==
  /\ MergeExhausted
  /\ shifts >= 2
  /\ Len(oracle_log) = base_variations * shifts - 2
  /\ block_vector[2].size = 1

(***************************************************************************)
(* The variation count.                                                    *)
(***************************************************************************)
\* b^e <= m, for b >= 1, by e divisions of m.
RECURSIVE PowAtMost(_, _, _)
PowAtMost(b, e, m) ==
  IF e = 0 THEN 1 <= m ELSE m >= 1 /\ PowAtMost(b, e - 1, m \div b)

\* min(b^e, INT_MAX)
MinPow(b, e) == IF PowAtMost(b, e, INT_MAX) THEN b ^ e ELSE INT_MAX

\* The vector given to the guard was a single block.
GuardSingle ==
  \/ Len(block_vector) = 1
  \/ /\ Len(block_vector) = 2
     /\ block_vector[2].pos = orig_block.pos + 1

\* The number of blocks given to the guard.
GuardBlocks == IF GuardSingle THEN 1 ELSE Len(block_vector)

\* n^k < INT_MAX and, for a single block, n^2 * size < INT_MAX.
CountFits ==
  /\ PowAtMost(filenames_size, GuardBlocks, INT_MAX - 1)
  /\ GuardSingle =>
        /\ PowAtMost(filenames_size, 2, INT_MAX - 1)
        /\ filenames_size ^ 2 <= (INT_MAX - 1) \div orig_block.size

\* C15: ipow(b, e) = min(b^e, INT_MAX) for b >= 1; merge reaches its
\* search loop only if n^k < INT_MAX and, for a single block,
\* n^2 * size < INT_MAX, and then base_variations * shifts is below INT_MAX
\* and variations is base * shifts - 2 >= 1; whenever one of the two
\* bounds is passed merge returns 1, too damaged, with no trial made.
C15_variation_count_is_exact ==
  /\ (mode = "guard" /\ pc = "g_prepare") =>
        base_variations = MinPow(filenames_size, Len(block_vector))
  /\ (mode = "guard" /\ Finished) =>
        /\ ret = -1 =>
              /\ CountFits
              /\ shifts = (IF GuardSingle THEN orig_block.size - 1 ELSE 1)
              /\ base_variations =
                    filenames_size ^ (IF GuardSingle THEN 2 ELSE GuardBlocks)
              /\ base_variations <= (INT_MAX - 1) \div shifts
              /\ variations = base_variations * shifts - 2
              /\ variations >= 1
        /\ ~CountFits =>
              /\ ret = 1 /\ msg = MsgTooDamaged
              /\ oracle_log = << >>

\* A single block that passes the guard with a count above INT_MAX / 2.
C15_witness ==
  /\ mode = "guard" /\ Finished
  /\ ret = -1
  /\ GuardSingle
  /\ variations > INT_MAX \div 2
  /\ variations = base_variations * shifts - 2

=============================================================================
